---- MODULE Spec2Model ----
(***************************************************************************)
(* A model of the CHIP-8 interpreter of src/main.rs: the Chip8 struct, its *)
(* constructor, the fetch-decode-execute step (exec_instruction), every    *)
(* opcode handler that exec_instruction dispatches to, and the run loop.   *)
(*                                                                         *)
(* The machine is one record, chip8, with the fields of the Rust struct.   *)
(* A handler is an operator from (machine, opcode) to an Outcome: the      *)
(* machine as the handler left it, and the error (if any) that ended it.   *)
(* A Rust panic (an index out of bounds, an arithmetic overflow when the   *)
(* build checks overflow) is an outcome too: it ends the run, and the      *)
(* machine in the outcome is the machine at the moment of the panic.       *)
(***************************************************************************)
EXTENDS Integers, Sequences, FiniteSets

VARIABLES
    chip8,            \* the Chip8 struct
    error,            \* what ended run: a Chip8Error, a panic, or NoError so far
    iteration,        \* passes of the loop of run made so far
    opcode,           \* the opcode of the last pass (the local of exec_instruction)
    overflow_checks,  \* whether the build checks integer overflow
    pending_returns,  \* history: return addresses of the calls not yet returned from
    previous          \* history: the Chip8 struct before the last pass

vars == <<chip8, error, iteration, opcode, overflow_checks, pending_returns, previous>>

(***************************************************************************)
(* Sizes of the Chip8 struct and byte arithmetic.                          *)
(***************************************************************************)
MemSize == 4096
NumRegisters == 16
StackSize == 12
DisplayRows == 32
DisplayRowBytes == 8
ProgramStart == 512
SpriteStart == 80

\* Bit k (0 = least significant) of v.
Bit(v, k) == (v \div (2 ^ k)) % 2

\* The Rust operators &, | and ^ on u8 values, bit by bit.
BitAnd(a, b) ==
    LET t(k) == (Bit(a, k) * Bit(b, k)) * (2 ^ k)
    IN  t(0) + t(1) + t(2) + t(3) + t(4) + t(5) + t(6) + t(7)

BitOr(a, b) ==
    LET t(k) == (IF Bit(a, k) + Bit(b, k) > 0 THEN 1 ELSE 0) * (2 ^ k)
    IN  t(0) + t(1) + t(2) + t(3) + t(4) + t(5) + t(6) + t(7)

BitXor(a, b) ==
    LET t(k) == ((Bit(a, k) + Bit(b, k)) % 2) * (2 ^ k)
    IN  t(0) + t(1) + t(2) + t(3) + t(4) + t(5) + t(6) + t(7)

\* `v as u8` and `v as u16`.
AsU8(v) == v % 256
AsU16(v) == v % 65536

(***************************************************************************)
(* The built-in glyphs, SPRITE_FOR_CHARS.                                  *)
(***************************************************************************)
SPRITE_FOR_CHARS ==
    << 240, 144, 144, 144, 240,
        32,  96,  32,  32, 112,
       240,  16, 240, 128, 240,
       240,  16, 240,  16,  16,
       144, 144, 240,  16,  16,
       240, 128, 240,  16, 240,
       240, 128, 240, 144, 240,
       240,  16,  32,  64,  64,
       240, 144, 240, 144, 240,
       240, 144, 240,  16, 240,
       240, 144, 240, 144, 144,
       224, 144, 224, 144, 224,
       240, 128, 128, 128, 240,
       224, 144, 144, 144, 224,
       240, 128, 240, 128, 240,
       240, 128, 240, 128, 128 >>

(***************************************************************************)
(* Chip8::new: memory zeroed, the glyphs copied to 0x50..=0x9F, the        *)
(* program copied to 512.., pc = 512, everything else zero and             *)
(* refresh_display set.                                                    *)
(***************************************************************************)
new(program) ==
    [ mem |-> [a \in 0..(MemSize - 1) |->
                  IF a >= SpriteStart /\ a < SpriteStart + Len(SPRITE_FOR_CHARS)
                  THEN SPRITE_FOR_CHARS[a - SpriteStart + 1]
                  ELSE IF a >= ProgramStart /\ a < ProgramStart + Len(program)
                  THEN program[a - ProgramStart + 1]
                  ELSE 0],
      registers |-> [r \in 0..(NumRegisters - 1) |-> 0],
      address_register |-> 0,
      pc |-> ProgramStart,
      stack |-> [s \in 0..(StackSize - 1) |-> 0],
      stack_pointer |-> 0,
      display |-> [y \in 0..(DisplayRows - 1) |-> [b \in 0..(DisplayRowBytes - 1) |-> 0]],
      current_key |-> 0,
      delay_timer |-> 0,
      sound_timer |-> 0,
      refresh_display |-> TRUE ]

(***************************************************************************)
(* Chip8Error, and the two kinds of panic the handlers can raise.  A       *)
(* record of one shape: the fields a kind does not carry are 0.            *)
(***************************************************************************)
NoError == [kind |-> "None", opcode |-> 0, pc |-> 0, nr |-> 0]
IllegalInstruction(op, at) ==
    [kind |-> "IllegalInstruction", opcode |-> op, pc |-> at, nr |-> 0]
StackOverflow == [kind |-> "StackOverflow", opcode |-> 0, pc |-> 0, nr |-> 0]
UnknownMachineRoutine(n) ==
    [kind |-> "UnknownMachineRoutine", opcode |-> 0, pc |-> 0, nr |-> n]
PanicIndexOutOfBounds ==
    [kind |-> "PanicIndexOutOfBounds", opcode |-> 0, pc |-> 0, nr |-> 0]
PanicArithmeticOverflow ==
    [kind |-> "PanicArithmeticOverflow", opcode |-> 0, pc |-> 0, nr |-> 0]

\* Result<(), Chip8Error> together with the machine the handler leaves.
Ok(c) == [c |-> c, e |-> NoError]
Fail(c, e) == [c |-> c, e |-> e]

(***************************************************************************)
(* Operand fields of an opcode.                                            *)
(***************************************************************************)
\* (opcode & 0xF000) >> 12
Family(op) == op \div 4096
\* (opcode & 0x0F00) >> 8
X(op) == (op \div 256) % 16
\* (opcode & 0x00F0) >> 4
Y(op) == (op \div 16) % 16
\* opcode & 0x000F
N(op) == op % 16
\* opcode & 0x00FF
NN(op) == op % 256
\* opcode & 0x0FFF
NNN(op) == op % 4096

(***************************************************************************)
(* load_opcode: two bytes at pc, big endian.  The caller checks that both  *)
(* indices are inside mem; outside, the indexing panics.                   *)
(***************************************************************************)
load_opcode(c) == c.mem[c.pc] * 256 + c.mem[c.pc + 1]

(***************************************************************************)
(* Arithmetic of the build: with overflow checks (a debug build) a u8 or   *)
(* u16 result outside its type panics, without them (a release build) it   *)
(* wraps.                                                                  *)
(***************************************************************************)
Overflows(v, width) == v < 0 \/ v >= 2 ^ width
Wrap(v, width) == v % (2 ^ width)

(***************************************************************************)
(* The handlers, in the order of the source.  Each takes the machine as    *)
(* exec_instruction hands it over (refresh_display cleared, pc advanced    *)
(* by 2) and the opcode.                                                   *)
(***************************************************************************)

\* FX0A.  `line` is what read_line put in the buffer, a sequence of bytes
\* (empty at end of input); indexing byte 0 of an empty line panics.
wait_for_key_press_and_store_in_vx(c, op, line) ==
    LET vx == X(op)
    IN  IF Len(line) = 0
        THEN Fail(c, PanicIndexOutOfBounds)
        ELSE Ok([c EXCEPT !.registers[vx] = line[1]])

\* FX15
set_delay_timer_to_vx(c, op) ==
    LET vx == X(op)
    IN  Ok([c EXCEPT !.delay_timer = c.registers[vx]])

\* FX18
set_sound_timer_to_vx(c, op) ==
    LET vx == X(op)
    IN  Ok([c EXCEPT !.sound_timer = c.registers[vx]])

\* FX29
set_i_to_sprite_addr(c, op) ==
    LET vx == X(op)
        sprite_addr == c.registers[vx] * 5
    IN  Ok([c EXCEPT !.address_register = AsU16(sprite_addr)])

\* FX33: three indexed writes in a row, each of which panics outside mem.
store_bcd_in_mem(c, op) ==
    LET vx == X(op)
        vx_val == c.registers[vx]
        hundreds == vx_val \div 100
        tens == (vx_val % 100) \div 10
        ones == vx_val % 10
        a == c.address_register
        c1 == [c EXCEPT !.mem[a] = hundreds]
        c2 == [c1 EXCEPT !.mem[a + 1] = tens]
        c3 == [c2 EXCEPT !.mem[a + 2] = ones]
    IN  IF a >= MemSize THEN Fail(c, PanicIndexOutOfBounds)
        ELSE IF a + 1 >= MemSize THEN Fail(c1, PanicIndexOutOfBounds)
        ELSE IF a + 2 >= MemSize THEN Fail(c2, PanicIndexOutOfBounds)
        ELSE Ok(c3)

\* The loop `for i in 0..=vx` of FX65 from index i on.
RECURSIVE LoadLoop(_, _, _)
LoadLoop(c, i, vx) ==
    IF i > vx THEN Ok(c)
    ELSE IF c.address_register + i >= MemSize THEN Fail(c, PanicIndexOutOfBounds)
    ELSE LoadLoop([c EXCEPT !.registers[i] = c.mem[c.address_register + i]], i + 1, vx)

\* FX65
load_v0_to_vx_from_mem(c, op) ==
    LET vx == X(op)
    IN  LoadLoop(c, 0, vx)

\* The loop `for i in 0..=vx` of FX55 from index i on.
RECURSIVE StoreLoop(_, _, _)
StoreLoop(c, i, vx) ==
    IF i > vx THEN Ok(c)
    ELSE IF c.address_register + i >= MemSize THEN Fail(c, PanicIndexOutOfBounds)
    ELSE StoreLoop([c EXCEPT !.mem[c.address_register + i] = c.registers[i]], i + 1, vx)

\* FX55 with the loop `for i in 0..vx`, which leaves Vx out.
store_v0_to_vx_in_mem_exclusive(c, op) ==
    LET vx == X(op)
    IN  IF vx = 0 THEN Ok(c) ELSE StoreLoop(c, 0, vx - 1)

\* FX55
store_v0_to_vx_in_mem(c, op) ==
    LET vx == X(op)
    IN  StoreLoop(c, 0, vx)

\* 0NNN with low byte 00
call_machine_routine(c, op) ==
    LET machine_routine_nr == NNN(op)
    IN  Fail(c, UnknownMachineRoutine(machine_routine_nr))

\* 00E0
clear_display(c) ==
    Ok([c EXCEPT !.display = [y \in 0..(DisplayRows - 1) |->
                                 [b \in 0..(DisplayRowBytes - 1) |-> 0]],
                 !.refresh_display = TRUE])

\* 00EE: pc is read from stack[stack_pointer] (a panic when the index is
\* outside the stack), then stack_pointer -= 1 (u8).
subroutine_return(c) ==
    LET sp == c.stack_pointer
        c1 == [c EXCEPT !.pc = c.stack[sp]]
    IN  IF sp >= StackSize THEN Fail(c, PanicIndexOutOfBounds)
        ELSE IF Overflows(sp - 1, 8) /\ overflow_checks
        THEN Fail(c1, PanicArithmeticOverflow)
        ELSE Ok([c1 EXCEPT !.stack_pointer = Wrap(sp - 1, 8)])

\* 1NNN
jump(c, op) ==
    LET jump_addr == NNN(op)
    IN  Ok([c EXCEPT !.pc = jump_addr])

\* 2NNN: stack_pointer += 1 (u8) first, then stack.get_mut(stack_pointer),
\* which is None, hence StackOverflow, outside the stack.
call_subroutine(c, op) ==
    LET sp == c.stack_pointer + 1
        c1 == [c EXCEPT !.stack_pointer = Wrap(sp, 8)]
        subroutine_mem_addr == NNN(op)
    IN  IF Overflows(sp, 8) /\ overflow_checks
        THEN Fail(c, PanicArithmeticOverflow)
        ELSE IF c1.stack_pointer >= StackSize
        THEN Fail(c1, StackOverflow)
        ELSE Ok([c1 EXCEPT !.stack[c1.stack_pointer] = c.pc,
                           !.pc = subroutine_mem_addr])

\* 3XNN: the body of the `if` is empty.
skip_if_vx_eq_nn(c, op) ==
    LET register_value == c.registers[X(op)]
        number_in == NN(op)
    IN  IF register_value = AsU8(number_in) THEN Ok(c) ELSE Ok(c)

\* 4XNN: the body of the `if` is empty.
skip_if_vx_ne_nn(c, op) ==
    LET register_value == c.registers[X(op)]
        number_in == NN(op)
    IN  IF register_value # AsU8(number_in) THEN Ok(c) ELSE Ok(c)

\* 5XY0 (any low nibble: the decoder looks at the family only); the body
\* of the `if` is empty.
skip_if_vx_eq_vy(c, op) ==
    LET vx_value == c.registers[X(op)]
        vy_value == c.registers[Y(op)]
    IN  IF vx_value = vy_value THEN Ok(c) ELSE Ok(c)

\* 6XNN
set_vx_to_n(c, op) ==
    LET vx == X(op)
        number_in == NN(op)
    IN  Ok([c EXCEPT !.registers[vx] = AsU8(number_in)])

\* 7XNN: `+=` on u8.
add_n_to_vx(c, op) ==
    LET vx == X(op)
        sum == c.registers[vx] + AsU8(NN(op))
    IN  IF Overflows(sum, 8) /\ overflow_checks
        THEN Fail(c, PanicArithmeticOverflow)
        ELSE Ok([c EXCEPT !.registers[vx] = Wrap(sum, 8)])

\* 8XY0
set_vx_to_vy(c, op) ==
    LET vx == X(op)
        vy_number == Y(op)
    IN  Ok([c EXCEPT !.registers[vx] = c.registers[vy_number]])

\* 8XY1
set_vx_to_vx_bitor_vy(c, op) ==
    LET vx == X(op)
        vy == Y(op)
    IN  Ok([c EXCEPT !.registers[vx] = BitOr(c.registers[vx], c.registers[vy])])

\* 8XY2
set_vx_to_vx_bitand_vy(c, op) ==
    LET vx == X(op)
        vy == Y(op)
    IN  Ok([c EXCEPT !.registers[vx] = BitAnd(c.registers[vx], c.registers[vy])])

\* 8XY3
set_vx_to_vx_xor_vy(c, op) ==
    LET vx == X(op)
        vy == Y(op)
    IN  Ok([c EXCEPT !.registers[vx] = BitXor(c.registers[vx], c.registers[vy])])

\* add_vy_to_vx storing the sum in Vy.
add_vy_to_vx_into_vy(c, op) ==
    LET vx == X(op)
        vy == Y(op)
        sum == c.registers[vx] + c.registers[vy]
    IN  IF Overflows(sum, 8) /\ overflow_checks
        THEN Fail(c, PanicArithmeticOverflow)
        ELSE Ok([c EXCEPT !.registers[vy] = Wrap(sum, 8)])

\* 8XY4: `+=` on u8; register 15 is not written.
add_vy_to_vx(c, op) ==
    LET vx == X(op)
        vy == Y(op)
        sum == c.registers[vx] + c.registers[vy]
    IN  IF Overflows(sum, 8) /\ overflow_checks
        THEN Fail(c, PanicArithmeticOverflow)
        ELSE Ok([c EXCEPT !.registers[vx] = Wrap(sum, 8)])

\* 8XY5: `-=` on u8; register 15 is not written.
subtract_vy_from_vx(c, op) ==
    LET vx == X(op)
        vy == Y(op)
        diff == c.registers[vx] - c.registers[vy]
    IN  IF Overflows(diff, 8) /\ overflow_checks
        THEN Fail(c, PanicArithmeticOverflow)
        ELSE Ok([c EXCEPT !.registers[vx] = Wrap(diff, 8)])

\* 8XY6: register 15 first, then the shift of vx.
right_shift_vx(c, op) ==
    LET vx == X(op)
        c1 == [c EXCEPT !.registers[15] = BitAnd(c.registers[vx], 1)]
    IN  Ok([c1 EXCEPT !.registers[vx] = c1.registers[vx] \div 2])

\* 8XY7: `vy - vx` on u8; register 15 is not written.
set_vx_to_vy_minus_vx(c, op) ==
    LET vx == X(op)
        vy == Y(op)
        diff == c.registers[vy] - c.registers[vx]
    IN  IF Overflows(diff, 8) /\ overflow_checks
        THEN Fail(c, PanicArithmeticOverflow)
        ELSE Ok([c EXCEPT !.registers[vx] = Wrap(diff, 8)])

\* 8XYE: register 15 first, then the shift of vx (`<<=` drops the high bit
\* in every build).
left_shift_vx(c, op) ==
    LET vx == X(op)
        c1 == [c EXCEPT !.registers[15] = BitAnd(c.registers[vx], 128) \div 128]
    IN  Ok([c1 EXCEPT !.registers[vx] = Wrap(c1.registers[vx] * 2, 8)])

\* 9XY0 (any low nibble); the body of the `if` is empty.
skip_if_vx_ne_vy(c, op) ==
    LET vx_value == c.registers[X(op)]
        vy_value == c.registers[Y(op)]
    IN  IF vx_value # vy_value THEN Ok(c) ELSE Ok(c)

\* ANNN
set_i_addr_to_n(c, op) ==
    LET n == NNN(op)
    IN  Ok([c EXCEPT !.address_register = n])

\* BNNN: the sum is a u16 of at most 255 + 4095.
jump_to_n_plus_v0(c, op) ==
    LET n == NNN(op)
    IN  Ok([c EXCEPT !.pc = c.registers[0] + n])

\* CXNN: the "random" byte is pc + current_key + stack_pointer.
set_to_vx_rand_bitand_n(c, op) ==
    LET vx == X(op)
        n == NN(op)
        rand == c.pc + c.current_key + c.stack_pointer
    IN  Ok([c EXCEPT !.registers[vx] = BitAnd(AsU8(rand), AsU8(n))])

\* pixel_from_u8 counting bits from the least significant end.
pixel_from_u8_lsb_first(byte, bit) == Bit(byte, bit) = 1

\* The closures of the draw loop: bit `bit` of a byte counted from the most
\* significant one, and a byte with that bit replaced by `pixel` (0 or 1).
pixel_from_u8(byte, bit) == Bit(byte, 7 - bit) = 1
merge_pixel_into_u8(byte, bit, pixel) ==
    (byte - Bit(byte, 7 - bit) * (2 ^ (7 - bit))) + pixel * (2 ^ (7 - bit))

\* DrawPixel compositing with OR where the source composites with XOR.
DrawPixel_or(d, sprite, row, col, x, y) ==
    LET local_x == ((x + col) % 64) \div 8
        local_y == (y + row) % 32
        sprite_pixel == pixel_from_u8(sprite, col)
        old_display_pixel == pixel_from_u8(d.display[local_y][local_x], (x + col) % 8)
        new_display_pixel == old_display_pixel \/ sprite_pixel
        flip_from_set_to_unset == old_display_pixel /\ ~new_display_pixel
    IN  [display |-> [d.display EXCEPT ![local_y][local_x] =
                         merge_pixel_into_u8(@, (x + col) % 8,
                                             IF new_display_pixel THEN 1 ELSE 0)],
         vf |-> BitOr(d.vf, IF flip_from_set_to_unset THEN 1 ELSE 0)]

\* One pass of the inner loop of DXYN: pixel `col` of sprite byte `sprite`
\* of row `row`, on d = [display, vf].
DrawPixel(d, sprite, row, col, x, y) ==
    LET local_x == ((x + col) % 64) \div 8
        local_y == (y + row) % 32
        sprite_pixel == pixel_from_u8(sprite, col)
        old_display_pixel == pixel_from_u8(d.display[local_y][local_x], (x + col) % 8)
        new_display_pixel == old_display_pixel # sprite_pixel
        flip_from_set_to_unset == old_display_pixel /\ ~new_display_pixel
    IN  [display |-> [d.display EXCEPT ![local_y][local_x] =
                         merge_pixel_into_u8(@, (x + col) % 8,
                                             IF new_display_pixel THEN 1 ELSE 0)],
         vf |-> BitOr(d.vf, IF flip_from_set_to_unset THEN 1 ELSE 0)]

\* `for col in 0..8`: d after the passes for the columns below `col`.
RECURSIVE DrawCols(_, _, _, _, _, _)
DrawCols(d, sprite, row, col, x, y) ==
    IF col = 0 THEN d
    ELSE DrawPixel(DrawCols(d, sprite, row, col - 1, x, y), sprite, row, col - 1, x, y)

\* `for row in 0..height`: d after the passes for the rows below `row`;
\* reading the sprite byte panics outside mem, with the rows drawn so far
\* left in the display.
RECURSIVE DrawRows(_, _, _, _, _)
DrawRows(c, d, row, x, y) ==
    IF row = 0 THEN [d |-> d, panic |-> FALSE]
    ELSE LET before == DrawRows(c, d, row - 1, x, y)
         IN  IF before.panic THEN before
             ELSE IF c.address_register + row - 1 >= MemSize
                  THEN [d |-> before.d, panic |-> TRUE]
             ELSE [d |-> DrawCols(before.d, c.mem[c.address_register + row - 1],
                                  row - 1, 8, x, y),
                   panic |-> FALSE]

\* DXYN
draw_sprite_at_coordinates_vx_vy_with_height_n(c, op) ==
    LET height == N(op)
        x == c.registers[X(op)] % 64
        y == c.registers[Y(op)] % 32
        r == DrawRows(c, [display |-> c.display, vf |-> 0], height, x, y)
        c1 == [c EXCEPT !.display = r.d.display, !.registers[15] = r.d.vf]
    IN  IF r.panic THEN Fail(c1, PanicIndexOutOfBounds)
        ELSE Ok([c1 EXCEPT !.refresh_display = TRUE])

\* EX9E: the body of the `if` is empty.
skip_if_key_in_vk_pressed(c, op) ==
    LET vx == X(op)
    IN  IF c.current_key = c.registers[vx] THEN Ok(c) ELSE Ok(c)

\* EXA1: the body of the `if` is empty.
skip_if_key_in_vk_not_pressed(c, op) ==
    LET vx == X(op)
    IN  IF c.current_key # c.registers[vx] THEN Ok(c) ELSE Ok(c)

\* FX07
set_vx_to_delay_timer(c, op) ==
    LET vx == X(op)
    IN  Ok([c EXCEPT !.registers[vx] = c.delay_timer])

\* FX1E: `+=` on u16.
add_vx_to_i(c, op) ==
    LET vx == X(op)
        sum == c.address_register + c.registers[vx]
    IN  IF Overflows(sum, 16) /\ overflow_checks
        THEN Fail(c, PanicArithmeticOverflow)
        ELSE Ok([c EXCEPT !.address_register = Wrap(sum, 16)])

(***************************************************************************)
(* The match of exec_instruction: the handler an opcode is dispatched to,  *)
(* "illegal" for the arms that return IllegalInstruction.                  *)
(***************************************************************************)
Decode(op) ==
    CASE Family(op) = 0 ->
            (CASE NN(op) = 0 -> "call_machine_routine"
               [] NN(op) = 224 -> "clear_display"
               [] NN(op) = 238 -> "subroutine_return"
               [] OTHER -> "illegal")
      [] Family(op) = 1 -> "jump"
      [] Family(op) = 2 -> "call_subroutine"
      [] Family(op) = 3 -> "skip_if_vx_eq_nn"
      [] Family(op) = 4 -> "skip_if_vx_ne_nn"
      [] Family(op) = 5 -> "skip_if_vx_eq_vy"
      [] Family(op) = 6 -> "set_vx_to_n"
      [] Family(op) = 7 -> "add_n_to_vx"
      [] Family(op) = 8 ->
            (CASE N(op) = 0 -> "set_vx_to_vy"
               [] N(op) = 1 -> "set_vx_to_vx_bitor_vy"
               [] N(op) = 2 -> "set_vx_to_vx_bitand_vy"
               [] N(op) = 3 -> "set_vx_to_vx_xor_vy"
               [] N(op) = 4 -> "add_vy_to_vx"
               [] N(op) = 5 -> "subtract_vy_from_vx"
               [] N(op) = 6 -> "right_shift_vx"
               [] N(op) = 7 -> "set_vx_to_vy_minus_vx"
               [] N(op) = 14 -> "left_shift_vx"
               [] OTHER -> "illegal")
      [] Family(op) = 9 -> "skip_if_vx_ne_vy"
      [] Family(op) = 10 -> "set_i_addr_to_n"
      [] Family(op) = 11 -> "jump_to_n_plus_v0"
      [] Family(op) = 12 -> "set_to_vx_rand_bitand_n"
      [] Family(op) = 13 -> "draw_sprite_at_coordinates_vx_vy_with_height_n"
      [] Family(op) = 14 ->
            (CASE NN(op) = 158 -> "skip_if_key_in_vk_pressed"
               [] NN(op) = 161 -> "skip_if_key_in_vk_not_pressed"
               [] OTHER -> "illegal")
      [] Family(op) = 15 ->
            (CASE NN(op) = 7 -> "set_vx_to_delay_timer"
               [] NN(op) = 10 -> "wait_for_key_press_and_store_in_vx"
               [] NN(op) = 21 -> "set_delay_timer_to_vx"
               [] NN(op) = 24 -> "set_sound_timer_to_vx"
               [] NN(op) = 30 -> "add_vx_to_i"
               [] NN(op) = 41 -> "set_i_to_sprite_addr"
               [] NN(op) = 51 -> "store_bcd_in_mem"
               [] NN(op) = 85 -> "store_v0_to_vx_in_mem"
               [] NN(op) = 101 -> "load_v0_to_vx_from_mem"
               [] OTHER -> "illegal")
      [] OTHER -> "illegal"

\* u8::wrapping_sub in place of u8::saturating_sub.
wrapping_sub(v, n) == (v - n) % 256

(***************************************************************************)
(* One pass of the loop of run: exec_instruction, and when it returned Ok, *)
(* print_display (no state) and the two saturating timer decrements.  An   *)
(* Err or a panic leaves the loop, and the machine as it then is.          *)
(***************************************************************************)
saturating_sub(v, n) == IF v - n < 0 THEN 0 ELSE v - n

\* Lines 130-131 of run.
TimerTick(c) ==
    [c EXCEPT !.sound_timer = saturating_sub(c.sound_timer, 1),
              !.delay_timer = saturating_sub(c.delay_timer, 1)]

\* The loop runs while no error ended it; MaxIterations bounds the 10000
\* passes of the source.
MaxIterations == 26
Running == error = NoError /\ iteration < MaxIterations

\* Both bytes of the opcode are inside mem.
FetchInBounds == chip8.pc + 1 < MemSize

\* The machine handed to the handlers with refresh_display left as the
\* pass before set it.
Fetched_keeping_refresh_display == [chip8 EXCEPT !.pc = chip8.pc + 2]

\* Lines 138-141 of exec_instruction: the machine handed to the handlers,
\* and the opcode fetched (before pc is advanced).
Fetched == [chip8 EXCEPT !.refresh_display = FALSE, !.pc = chip8.pc + 2]
Fetch == load_opcode(chip8)

\* The opcode at pc is dispatched to handler `name`.
Dispatch(name) == Running /\ FetchInBounds /\ Decode(Fetch) = name

\* The pass ends with outcome r of the handler.
Finish(r) ==
    /\ chip8' = IF r.e = NoError THEN TimerTick(r.c) ELSE r.c
    /\ error' = r.e
    /\ iteration' = iteration + 1
    /\ opcode' = Fetch
    /\ pending_returns' =
          IF r.e = NoError /\ Decode(Fetch) = "call_subroutine"
          THEN Append(pending_returns, chip8.pc + 2)
          ELSE IF r.e = NoError /\ Decode(Fetch) = "subroutine_return"
                  /\ Len(pending_returns) > 0
          THEN SubSeq(pending_returns, 1, Len(pending_returns) - 1)
          ELSE pending_returns
    /\ previous' = chip8
    /\ UNCHANGED overflow_checks

(***************************************************************************)
(* The program images the machine is constructed with, and the lines the   *)
(* console can deliver.  A program is written as 16-bit words and loaded   *)
(* as their big-endian bytes.                                              *)
(***************************************************************************)
XYN(f, x, y, n) == f * 4096 + x * 256 + y * 16 + n
XNN(f, x, nn) == f * 4096 + x * 256 + nn
ADDR(f, nnn) == f * 4096 + nnn

ToBytes(words) ==
    [i \in 1..(2 * Len(words)) |->
        IF i % 2 = 1 THEN words[(i + 1) \div 2] \div 256 ELSE words[i \div 2] % 256]

\* Register indices and byte values the programs draw their operands from.
Regs == {0, 1, 15}
Vals == {0, 1, 128, 255}

\* [6x a][6y b][op x y]: every two-register instruction on every pair.
TwoRegisterOps(x, y) ==
    {XYN(5, x, y, 0), XYN(9, x, y, 0), XYN(8, x, y, 14)}
        \cup {XYN(8, x, y, n) : n \in 0..7}
TwoRegisterPrograms ==
    UNION {{<<XNN(6, x, a), XNN(6, y, b), op>> : op \in TwoRegisterOps(x, y)} :
              <<x, y, a, b>> \in Regs \X Regs \X Vals \X Vals}

\* [6x a][op x nn]: every register-and-immediate instruction.
ImmediateOps(x, nn) == {XNN(3, x, nn), XNN(4, x, nn), XNN(7, x, nn), XNN(12, x, nn)}
ImmediatePrograms ==
    UNION {{<<XNN(6, x, a), op>> : op \in ImmediateOps(x, nn)} :
              <<x, a, nn>> \in Regs \X Vals \X Vals}

\* [6x a][op x]: the key, timer and address-register instructions.
OneRegisterOps(x) ==
    {XNN(14, x, 158), XNN(14, x, 161), XNN(15, x, 7), XNN(15, x, 10),
     XNN(15, x, 21), XNN(15, x, 24), XNN(15, x, 30), XNN(15, x, 41)}
OneRegisterPrograms ==
    UNION {{<<XNN(6, x, a), op>> : op \in OneRegisterOps(x)} :
              <<x, a>> \in Regs \X Vals}

\* [60 a][61 b][A addr][F01E]?[op]: the memory block instructions with the
\* address register near and beyond the end of memory.
Addrs == {768, 4093, 4094, 4095}
MemoryOps == {XNN(15, 0, 51), XNN(15, 1, 51), XNN(15, 0, 85), XNN(15, 1, 85),
              XNN(15, 15, 85), XNN(15, 0, 101), XNN(15, 1, 101), XNN(15, 15, 101)}
MemoryPrograms ==
    UNION {{<<XNN(6, 0, a), XNN(6, 1, b), ADDR(10, addr), op>>,
            <<XNN(6, 0, a), XNN(6, 1, b), ADDR(10, addr), XNN(15, 0, 30), op>>} :
              <<a, b, addr, op>> \in {1, 255} \X {128} \X Addrs \X MemoryOps}

\* Nested subroutines: subroutine k is [call subroutine k+1][return] at
\* 0x200 + 4k, the innermost one a lone [return]; depth calls, then as
\* many returns, then the return at 0x202 on the empty stack.
MaxDepth == 12
RECURSIVE NestWords(_, _)
NestWords(k, depth) ==
    IF k >= depth THEN <<238>>
    ELSE <<ADDR(2, ProgramStart + 4 * (k + 1)), 238>> \o NestWords(k + 1, depth)
NestPrograms ==
    {NestWords(0, depth) : depth \in 1..MaxDepth}
        \cup {<<ADDR(2, 520), 0, 0, 0, 238>>}

\* A lone word at 0x200, or after a register load at 0x202; jumps to the
\* end of memory and beyond.
Words ==
    {65535, 291, 255, 238, 480, 32776, 32783, 57344, 61440, 20481, 36865, 0, 3840}
WordPrograms ==
    {<<w>> : w \in Words} \cup {<<XNN(6, 0, 0), w>> : w \in Words}
        \cup {<<ADDR(1, 4094)>>, <<ADDR(1, 4095)>>, <<ADDR(2, 4095)>>,
              <<XNN(6, 0, 255), ADDR(11, 4095)>>, <<XNN(6, 0, 2), ADDR(11, 512)>>}

\* [6x n][Fx15][Fx18][Fx07][jump to self]: the timers running down.
TimerPrograms ==
    {<<XNN(6, 1, n), XNN(15, 1, 21), XNN(15, 1, 24), XNN(15, 2, 7), ADDR(1, 520)>> :
        n \in {0, 1, 3, 255}}

\* [6 0 a][6 1 b][A addr][D01n][D01n][D01n][00E0][6000]: a sprite (a
\* glyph, the program's own bytes, or bytes at the end of memory) drawn
\* three times at (a, b), then the display cleared and a register loaded.
DrawPrograms ==
    {<<XNN(6, 0, a), XNN(6, 1, b), ADDR(10, addr), XYN(13, 0, 1, n), XYN(13, 0, 1, n),
       XYN(13, 0, 1, n), 224, XNN(6, 0, 0)>> :
        <<a, b, addr, n>> \in {0, 60, 63} \X {0, 31} \X {80, 512, 4094} \X {0, 1, 5, 15}}

\* [6 0 a][6 1 b][A addr][F155][6 0 c][6 1 d][6 2 c][F165]: registers
\* dumped, overwritten and loaded back.
RoundTripPrograms ==
    {<<XNN(6, 0, a), XNN(6, 1, b), ADDR(10, addr), XNN(15, 1, 85),
       XNN(6, 0, c), XNN(6, 1, d), XNN(6, 2, c), XNN(15, 1, 101)>> :
        <<a, b, c, d, addr>> \in {1, 255} \X {0, 128} \X {7} \X {9} \X {768, 4094}}

\* [Cx nn][jump to 0x200]: the same CXNN executed again and again at the
\* same pc.
RandomLoopPrograms ==
    {<<XNN(12, x, nn), ADDR(1, 512)>> : <<x, nn>> \in {0, 1} \X {15, 255}}

\* The scenario of three steps: reg0 = 5, reg1 = 3, reg0 += reg1.
ScenarioPrograms == {<<XNN(6, 0, 5), XNN(6, 1, 3), XYN(8, 0, 1, 4)>>}

Programs ==
    {ToBytes(words) :
        words \in TwoRegisterPrograms \cup ImmediatePrograms \cup OneRegisterPrograms
                    \cup MemoryPrograms \cup NestPrograms \cup WordPrograms
                    \cup TimerPrograms \cup DrawPrograms \cup ScenarioPrograms
                    \cup RoundTripPrograms \cup RandomLoopPrograms}

\* First bytes "1\n", "a\n", "\n", and end of input.
StdinLines == {<<>>, <<49, 10>>, <<97, 10>>, <<10>>}

(***************************************************************************)
(* The arms of the match of exec_instruction, one action each.             *)
(***************************************************************************)
Step_call_machine_routine ==
    Dispatch("call_machine_routine") /\ Finish(call_machine_routine(Fetched, Fetch))

Step_clear_display ==
    Dispatch("clear_display") /\ Finish(clear_display(Fetched))

Step_subroutine_return ==
    Dispatch("subroutine_return") /\ Finish(subroutine_return(Fetched))

Step_jump ==
    Dispatch("jump") /\ Finish(jump(Fetched, Fetch))

Step_call_subroutine ==
    Dispatch("call_subroutine") /\ Finish(call_subroutine(Fetched, Fetch))

Step_skip_if_vx_eq_nn ==
    Dispatch("skip_if_vx_eq_nn") /\ Finish(skip_if_vx_eq_nn(Fetched, Fetch))

Step_skip_if_vx_ne_nn ==
    Dispatch("skip_if_vx_ne_nn") /\ Finish(skip_if_vx_ne_nn(Fetched, Fetch))

Step_skip_if_vx_eq_vy ==
    Dispatch("skip_if_vx_eq_vy") /\ Finish(skip_if_vx_eq_vy(Fetched, Fetch))

Step_set_vx_to_n ==
    Dispatch("set_vx_to_n") /\ Finish(set_vx_to_n(Fetched, Fetch))

Step_add_n_to_vx ==
    Dispatch("add_n_to_vx") /\ Finish(add_n_to_vx(Fetched, Fetch))

Step_set_vx_to_vy ==
    Dispatch("set_vx_to_vy") /\ Finish(set_vx_to_vy(Fetched, Fetch))

Step_set_vx_to_vx_bitor_vy ==
    Dispatch("set_vx_to_vx_bitor_vy") /\ Finish(set_vx_to_vx_bitor_vy(Fetched, Fetch))

Step_set_vx_to_vx_bitand_vy ==
    Dispatch("set_vx_to_vx_bitand_vy") /\ Finish(set_vx_to_vx_bitand_vy(Fetched, Fetch))

Step_set_vx_to_vx_xor_vy ==
    Dispatch("set_vx_to_vx_xor_vy") /\ Finish(set_vx_to_vx_xor_vy(Fetched, Fetch))

Step_add_vy_to_vx ==
    Dispatch("add_vy_to_vx") /\ Finish(add_vy_to_vx(Fetched, Fetch))

Step_subtract_vy_from_vx ==
    Dispatch("subtract_vy_from_vx") /\ Finish(subtract_vy_from_vx(Fetched, Fetch))

Step_right_shift_vx ==
    Dispatch("right_shift_vx") /\ Finish(right_shift_vx(Fetched, Fetch))

Step_set_vx_to_vy_minus_vx ==
    Dispatch("set_vx_to_vy_minus_vx") /\ Finish(set_vx_to_vy_minus_vx(Fetched, Fetch))

Step_left_shift_vx ==
    Dispatch("left_shift_vx") /\ Finish(left_shift_vx(Fetched, Fetch))

Step_skip_if_vx_ne_vy ==
    Dispatch("skip_if_vx_ne_vy") /\ Finish(skip_if_vx_ne_vy(Fetched, Fetch))

Step_set_i_addr_to_n ==
    Dispatch("set_i_addr_to_n") /\ Finish(set_i_addr_to_n(Fetched, Fetch))

Step_jump_to_n_plus_v0 ==
    Dispatch("jump_to_n_plus_v0") /\ Finish(jump_to_n_plus_v0(Fetched, Fetch))

Step_set_to_vx_rand_bitand_n ==
    Dispatch("set_to_vx_rand_bitand_n") /\ Finish(set_to_vx_rand_bitand_n(Fetched, Fetch))

Step_draw_sprite_at_coordinates_vx_vy_with_height_n ==
    Dispatch("draw_sprite_at_coordinates_vx_vy_with_height_n") /\ Finish(draw_sprite_at_coordinates_vx_vy_with_height_n(Fetched, Fetch))

Step_skip_if_key_in_vk_pressed ==
    Dispatch("skip_if_key_in_vk_pressed") /\ Finish(skip_if_key_in_vk_pressed(Fetched, Fetch))

Step_skip_if_key_in_vk_not_pressed ==
    Dispatch("skip_if_key_in_vk_not_pressed") /\ Finish(skip_if_key_in_vk_not_pressed(Fetched, Fetch))

Step_set_vx_to_delay_timer ==
    Dispatch("set_vx_to_delay_timer") /\ Finish(set_vx_to_delay_timer(Fetched, Fetch))

\* What read_line returns is the environment's choice.
Step_wait_for_key_press_and_store_in_vx ==
    /\ Dispatch("wait_for_key_press_and_store_in_vx")
    /\ \E line \in StdinLines : Finish(wait_for_key_press_and_store_in_vx(Fetched, Fetch, line))

Step_set_delay_timer_to_vx ==
    Dispatch("set_delay_timer_to_vx") /\ Finish(set_delay_timer_to_vx(Fetched, Fetch))

Step_set_sound_timer_to_vx ==
    Dispatch("set_sound_timer_to_vx") /\ Finish(set_sound_timer_to_vx(Fetched, Fetch))

Step_add_vx_to_i ==
    Dispatch("add_vx_to_i") /\ Finish(add_vx_to_i(Fetched, Fetch))

Step_set_i_to_sprite_addr ==
    Dispatch("set_i_to_sprite_addr") /\ Finish(set_i_to_sprite_addr(Fetched, Fetch))

Step_store_bcd_in_mem ==
    Dispatch("store_bcd_in_mem") /\ Finish(store_bcd_in_mem(Fetched, Fetch))

Step_store_v0_to_vx_in_mem ==
    Dispatch("store_v0_to_vx_in_mem") /\ Finish(store_v0_to_vx_in_mem(Fetched, Fetch))

Step_load_v0_to_vx_from_mem ==
    Dispatch("load_v0_to_vx_from_mem") /\ Finish(load_v0_to_vx_from_mem(Fetched, Fetch))

\* The arms `_ => Err(IllegalInstruction { opcode, pc: self.pc })`: pc has
\* been advanced by then.
Step_illegal ==
    Dispatch("illegal") /\ Finish(Fail(Fetched, IllegalInstruction(Fetch, Fetched.pc)))

\* load_opcode indexes mem outside its bounds: a panic, after
\* refresh_display was cleared.
Step_fetch_out_of_bounds ==
    /\ Running
    /\ ~FetchInBounds
    /\ chip8' = [chip8 EXCEPT !.refresh_display = FALSE]
    /\ error' = PanicIndexOutOfBounds
    /\ iteration' = iteration + 1
    /\ previous' = chip8
    /\ UNCHANGED <<opcode, overflow_checks, pending_returns>>

Next ==
    \/ Step_call_machine_routine
    \/ Step_clear_display
    \/ Step_subroutine_return
    \/ Step_jump
    \/ Step_call_subroutine
    \/ Step_skip_if_vx_eq_nn
    \/ Step_skip_if_vx_ne_nn
    \/ Step_skip_if_vx_eq_vy
    \/ Step_set_vx_to_n
    \/ Step_add_n_to_vx
    \/ Step_set_vx_to_vy
    \/ Step_set_vx_to_vx_bitor_vy
    \/ Step_set_vx_to_vx_bitand_vy
    \/ Step_set_vx_to_vx_xor_vy
    \/ Step_add_vy_to_vx
    \/ Step_subtract_vy_from_vx
    \/ Step_right_shift_vx
    \/ Step_set_vx_to_vy_minus_vx
    \/ Step_left_shift_vx
    \/ Step_skip_if_vx_ne_vy
    \/ Step_set_i_addr_to_n
    \/ Step_jump_to_n_plus_v0
    \/ Step_set_to_vx_rand_bitand_n
    \/ Step_draw_sprite_at_coordinates_vx_vy_with_height_n
    \/ Step_skip_if_key_in_vk_pressed
    \/ Step_skip_if_key_in_vk_not_pressed
    \/ Step_set_vx_to_delay_timer
    \/ Step_wait_for_key_press_and_store_in_vx
    \/ Step_set_delay_timer_to_vx
    \/ Step_set_sound_timer_to_vx
    \/ Step_add_vx_to_i
    \/ Step_set_i_to_sprite_addr
    \/ Step_store_bcd_in_mem
    \/ Step_store_v0_to_vx_in_mem
    \/ Step_load_v0_to_vx_from_mem
    \/ Step_illegal
    \/ Step_fetch_out_of_bounds

Init ==
    /\ \E program \in Programs : chip8 = new(program)
    /\ error = NoError
    /\ iteration = 0
    /\ opcode = 0
    /\ overflow_checks \in BOOLEAN
    /\ pending_returns = <<>>
    /\ previous = chip8

Spec == Init /\ [][Next]_vars

(***************************************************************************)
(* The claims.  A claim about one step is an action property: it reads the *)
(* machine before the step (unprimed) and after it (primed).  In a state   *)
(* where the loop runs and the fetch is in bounds, the only step is the    *)
(* execution of the opcode at pc.                                          *)
(***************************************************************************)
\* The opcode at pc is about to be executed.
AboutToExecute == Running /\ FetchInBounds

\* The six skip instructions and the condition each one documents.
IsSkip(op) ==
    \/ Family(op) \in {3, 4}
    \/ Family(op) \in {5, 9} /\ N(op) = 0
    \/ Family(op) = 14 /\ NN(op) \in {158, 161}
SkipCondition(c, op) ==
    CASE Family(op) = 3 -> c.registers[X(op)] = NN(op)
      [] Family(op) = 4 -> c.registers[X(op)] # NN(op)
      [] Family(op) = 5 -> c.registers[X(op)] = c.registers[Y(op)]
      [] Family(op) = 9 -> c.registers[X(op)] # c.registers[Y(op)]
      [] Family(op) = 14 /\ NN(op) = 158 -> c.current_key = c.registers[X(op)]
      [] Family(op) = 14 /\ NN(op) = 161 -> c.current_key # c.registers[X(op)]

\* C1: a skip instruction (3XNN, 4XNN, 5XY0, 9XY0, EX9E, EXA1) advances pc
\* by 4 when its condition is true and by 2 when it is false.
C1_SkipAdvancesFourOrTwo ==
    [][(AboutToExecute /\ IsSkip(Fetch))
         => /\ error' = NoError
            /\ chip8'.pc = chip8.pc + (IF SkipCondition(chip8, Fetch) THEN 4 ELSE 2)]_vars

\* The step is a 2NNN call, a 00EE return.
IsCall(op) == Family(op) = 2
IsReturn(op) == op = 238

\* C2: with up to 12 calls pending, a call succeeds, and a return with at
\* least one call pending sets pc to the address after the matching call
\* (the last pending one) and takes the depth one down, so that d calls
\* and d returns (1 <= d <= 12) end at depth 0 after the first call.
C2_CallThenReturnRestoresPc ==
    [][/\ (AboutToExecute /\ IsCall(Fetch) /\ Len(pending_returns) < 12)
            => /\ error' = NoError
               /\ chip8'.pc = NNN(Fetch)
               /\ chip8'.stack_pointer = Len(pending_returns) + 1
       /\ (AboutToExecute /\ IsReturn(Fetch) /\ Len(pending_returns) >= 1)
            => /\ error' = NoError
               /\ chip8'.pc = pending_returns[Len(pending_returns)]
               /\ chip8'.stack_pointer = Len(pending_returns) - 1]_vars

\* C3: a 00EE return with no call pending ends the step with
\* Stack-Underflow: pc is not taken from a stack slot and the depth does
\* not leave 0.
C3_ReturnOnEmptyStackUnderflows ==
    [][(AboutToExecute /\ IsReturn(Fetch) /\ Len(pending_returns) = 0)
         => /\ error'.kind = "StackUnderflow"
            /\ chip8'.pc = chip8.pc + 2
            /\ chip8'.stack_pointer = 0]_vars

\* C4: a 2NNN call fails with Stack-Overflow exactly when 12 calls are
\* pending (all 12 slots hold return addresses), and a call at any smaller
\* depth succeeds and takes the depth one up, within 0..12.
C4_OverflowExactlyAtCapacity ==
    [][(AboutToExecute /\ IsCall(Fetch))
         => /\ (error' = StackOverflow) <=> (Len(pending_returns) = 12)
            /\ (Len(pending_returns) < 12)
                 => /\ error' = NoError
                    /\ chip8'.stack_pointer = Len(pending_returns) + 1
                    /\ chip8'.stack_pointer \in 0..12]_vars

\* C5: 8XY4 with Vx = a, Vy = b leaves (a+b) mod 256 in register x and
\* 1 iff a+b > 255 (else 0) in register 15, and does not fault.  (For
\* x = 15 the flag is what register 15 holds.)
C5_AddSetsCarry ==
    [][(AboutToExecute /\ Family(Fetch) = 8 /\ N(Fetch) = 4)
         => LET x == X(Fetch)
                a == chip8.registers[x]
                b == chip8.registers[Y(Fetch)]
            IN  /\ error' = NoError
                /\ (x # 15) => (chip8'.registers[x] = (a + b) % 256)
                /\ chip8'.registers[15] = (IF a + b > 255 THEN 1 ELSE 0)]_vars

\* C6: 8XY5 leaves Vx = (a-b) mod 256 and register 15 = 1 iff a >= b;
\* 8XY7 leaves Vx = (b-a) mod 256 and register 15 = 1 iff b >= a; neither
\* faults.  (For x = 15 the flag is what register 15 holds.)
C6_SubtractSetsNoBorrow ==
    [][(AboutToExecute /\ Family(Fetch) = 8 /\ N(Fetch) \in {5, 7})
         => LET x == X(Fetch)
                a == chip8.registers[x]
                b == chip8.registers[Y(Fetch)]
                minuend == IF N(Fetch) = 5 THEN a ELSE b
                subtrahend == IF N(Fetch) = 5 THEN b ELSE a
            IN  /\ error' = NoError
                /\ (x # 15) => (chip8'.registers[x] = (minuend - subtrahend) % 256)
                /\ chip8'.registers[15] = (IF minuend >= subtrahend THEN 1 ELSE 0)]_vars

\* C7: for every x in 0..15, x = 15 included, and every prior value v of
\* Vx: after 8XY6 register 15 is the least significant bit of v, after
\* 8XYE it is the most significant bit of v.
C7_ShiftFlagIsBitShiftedOut ==
    [][(AboutToExecute /\ Family(Fetch) = 8 /\ N(Fetch) \in {6, 14})
         => LET v == chip8.registers[X(Fetch)]
            IN  /\ error' = NoError
                /\ chip8'.registers[15] = (IF N(Fetch) = 6 THEN v % 2 ELSE v \div 128)]_vars

\* C8: every word 0NNN whose low byte is neither 0xE0 nor 0xEE ends the
\* step with Unknown-Machine-Routine carrying the low 12 bits.
C8_Family0IsUnknownMachineRoutine ==
    [][(AboutToExecute /\ Family(Fetch) = 0 /\ NN(Fetch) \notin {224, 238})
         => error' = UnknownMachineRoutine(NNN(Fetch))]_vars

\* The words of families 8, E and F that match no opcode pattern (0xFFFF is
\* one of them).
IllegalWord(op) ==
    \/ Family(op) = 8 /\ N(op) \notin (0..7) \cup {14}
    \/ Family(op) = 14 /\ NN(op) \notin {158, 161}
    \/ Family(op) = 15 /\ NN(op) \notin {7, 10, 21, 24, 30, 41, 51, 85, 101}

\* C9: an illegal word fetched at pc = p yields Illegal-Instruction
\* carrying the word and p, the address it was fetched from.
C9_IllegalInstructionCarriesFetchPc ==
    [][(AboutToExecute /\ IllegalWord(Fetch))
         => error' = IllegalInstruction(Fetch, chip8.pc)]_vars

\* The step at hand reads or writes memory outside [0, 4096).
AccessOutOfBounds ==
    \/ ~FetchInBounds
    \/ /\ FetchInBounds
       /\ LET op == Fetch
              i == chip8.address_register
          IN  \/ Family(op) = 15 /\ NN(op) = 51 /\ i + 2 >= MemSize
              \/ Family(op) = 15 /\ NN(op) \in {85, 101} /\ i + X(op) >= MemSize
              \/ Family(op) = 13 /\ N(op) >= 1 /\ i + N(op) - 1 >= MemSize

\* The fatal condition of an access outside memory; the panic of an index
\* out of bounds counts as one.
IsOutOfBoundsCondition(e) ==
    e.kind \in {"OutOfBoundsMemoryAccess", "PanicIndexOutOfBounds"}

\* C10: a step whose memory access would fall outside [0, 4096) ends with
\* the out-of-bounds condition and has written nothing: memory, registers
\* and display are as before the step.
C10_OutOfBoundsAccessWritesNothing ==
    [][(Running /\ AccessOutOfBounds)
         => /\ IsOutOfBoundsCondition(error')
            /\ chip8'.mem = chip8.mem
            /\ chip8'.registers = chip8.registers
            /\ chip8'.display = chip8.display]_vars

\* C11: for every value v of Vx, FX29 sets the address register to
\* 0x50 + 5 * (v mod 16), where the glyph of the low nibble of v was
\* loaded, so that mem[I..I+4] are that glyph's rows.
C11_SpriteAddrIsGlyphAddr ==
    [][(AboutToExecute /\ Family(Fetch) = 15 /\ NN(Fetch) = 41)
         => LET v == chip8.registers[X(Fetch)]
                glyph == v % 16
            IN  /\ error' = NoError
                /\ chip8'.address_register = 80 + 5 * glyph
                /\ \A r \in 0..4 :
                      chip8'.mem[chip8'.address_register + r]
                          = SPRITE_FOR_CHARS[5 * glyph + r + 1]]_vars

\* Pixel (col, row) of a display, column 0 leftmost, is on.
PixelOn(display, col, row) == Bit(display[row][col \div 8], 7 - (col % 8)) = 1

\* The pass at hand is the second of two DXYN passes in a row with the
\* same opcode, x and y not register 15, and I, Vx, Vy and memory (the
\* sprite bytes) as they were before the first.
SecondOfTwoDraws ==
    /\ AboutToExecute
    /\ iteration >= 1
    /\ Family(Fetch) = 13
    /\ opcode = Fetch
    /\ X(Fetch) # 15 /\ Y(Fetch) # 15
    /\ previous.address_register = chip8.address_register
    /\ previous.registers[X(Fetch)] = chip8.registers[X(Fetch)]
    /\ previous.registers[Y(Fetch)] = chip8.registers[Y(Fetch)]
    /\ previous.mem = chip8.mem

\* The sprite the pass at hand draws has a set bit.
SpriteHasSetBit ==
    \E r \in 0..(N(Fetch) - 1) : chip8.mem[chip8.address_register + r] # 0

\* The first of the two draws turned a pixel on.
FirstDrawTurnedPixelOn ==
    \E col \in 0..63, row \in 0..31 :
        ~PixelOn(previous.display, col, row) /\ PixelOn(chip8.display, col, row)

\* C12 as stated: the second of two equal draws leaves the framebuffer as
\* it was before the first, and register 15 = 1 whenever the sprite has a
\* set bit.
C12_DrawTwiceAlwaysCollides ==
    [][SecondOfTwoDraws
         => /\ chip8'.display = previous.display
            /\ SpriteHasSetBit => chip8'.registers[15] = 1]_vars

\* C12 as amended: the second of two equal draws leaves the framebuffer as
\* it was before the first, and register 15 = 1 exactly when the first
\* draw turned at least one pixel on (a set sprite bit over a pixel that
\* was off before the first draw).
C12_DrawTwiceRestoresDisplay ==
    [][SecondOfTwoDraws
         => /\ error' = NoError
            /\ chip8'.display = previous.display
            /\ (chip8'.registers[15] = 1) <=> FirstDrawTurnedPixelOn
            /\ chip8'.registers[15] \in {0, 1}]_vars

\* A sprite with set bits has been drawn twice on a blank display: the
\* first draw changed the display, the second blanked it again with
\* register 15 = 1.
C12_Witness ==
    /\ error = NoError
    /\ iteration = 5
    /\ Family(opcode) = 13
    /\ previous.mem[ProgramStart + 6] * 256 + previous.mem[ProgramStart + 7] = opcode
    /\ previous.display # chip8.display
    /\ chip8.display = new(<<>>).display
    /\ chip8.registers[15] = 1

\* The sprite DXYN is about to draw has a set bit over pixel (col, row):
\* bit 7-c of sprite byte r, for the c and r that land on the pixel.
SpriteBitOver(col, row) ==
    \E c \in 0..7, r \in 0..(N(Fetch) - 1) :
        /\ col = ((chip8.registers[X(Fetch)] % 64) + c) % 64
        /\ row = ((chip8.registers[Y(Fetch)] % 32) + r) % 32
        /\ Bit(chip8.mem[chip8.address_register + r], 7 - c) = 1

\* A display of 32 rows of 8 bytes.
IsDisplay(display) ==
    /\ DOMAIN display = 0..31
    /\ \A row \in 0..31 : /\ DOMAIN display[row] = 0..7
                          /\ \A b \in 0..7 : display[row][b] \in 0..255

\* C13: a DXYN whose sprite bytes lie in memory completes; every pixel is
\* its old value XOR the sprite bit over it (the sprite wrapping at column
\* 63 and row 31, pixels outside the sprite unchanged), the display keeps
\* its 32 x 8 byte shape, and register 15 ends 1 iff a pixel went from on
\* to off, else 0.
C13_DrawXorsSpriteIntoDisplay ==
    [][(/\ AboutToExecute
        /\ Family(Fetch) = 13
        /\ chip8.address_register + N(Fetch) <= MemSize)
         => /\ error' = NoError
            /\ IsDisplay(chip8'.display)
            /\ \A col \in 0..63, row \in 0..31 :
                   PixelOn(chip8'.display, col, row)
                       <=> (PixelOn(chip8.display, col, row) # SpriteBitOver(col, row))
            /\ chip8'.registers[15] =
                   IF \E col \in 0..63, row \in 0..31 :
                          /\ PixelOn(chip8.display, col, row)
                          /\ ~PixelOn(chip8'.display, col, row)
                   THEN 1 ELSE 0]_vars

\* The glyph at 0x50 has been drawn with height 5 at Vx = 63, Vy = 31 on a
\* blank display: its first row is on row 31 in columns 63, 0, 1 and 2, its
\* second row has wrapped to row 0, and nothing collided.
C13_Witness ==
    /\ error = NoError
    /\ iteration = 4
    /\ Family(opcode) = 13 /\ N(opcode) = 5
    /\ previous.registers[X(opcode)] = 63 /\ previous.registers[Y(opcode)] = 31
    /\ previous.address_register = SpriteStart
    /\ PixelOn(chip8.display, 63, 31) /\ PixelOn(chip8.display, 0, 31)
    /\ PixelOn(chip8.display, 2, 31) /\ ~PixelOn(chip8.display, 4, 31)
    /\ PixelOn(chip8.display, 63, 0) /\ PixelOn(chip8.display, 2, 0)
    /\ ~PixelOn(chip8.display, 0, 0)
    /\ chip8.registers[15] = 0

\* max(n - k, 0).
CountedDown(n, k) == IF n > k THEN n - k ELSE 0

\* The value an instruction leaves in the delay (sound) timer: Vx for
\* FX15 (FX18), the timer as it was for every other instruction.
DelayAfterEffects ==
    IF Family(Fetch) = 15 /\ NN(Fetch) = 21 THEN chip8.registers[X(Fetch)]
    ELSE chip8.delay_timer
SoundAfterEffects ==
    IF Family(Fetch) = 15 /\ NN(Fetch) = 24 THEN chip8.registers[X(Fetch)]
    ELSE chip8.sound_timer

\* The program starts with [61 n][F1 15] and sets the delay timer nowhere
\* else.
SetsDelayOnce ==
    /\ chip8.mem[ProgramStart] = 97
    /\ chip8.mem[ProgramStart + 2] = 241 /\ chip8.mem[ProgramStart + 3] = 21
    /\ \A a \in (ProgramStart + 4)..(MemSize - 2) :
           ~(chip8.mem[a] \div 16 = 15 /\ chip8.mem[a + 1] = 21)

\* C14: every pass that completes leaves each timer at the value the
\* instruction left in it, less 1 if that is non-zero and 0 if it is 0, so
\* FX15/FX18 of n ends its pass with the timer at max(n - 1, 0); and k
\* passes after an FX15 of n that no later instruction overrides the delay
\* timer is max(n - k, 0), which is 0 from the n-th pass on.
C14_TimersCountDownToZero ==
    /\ [][(AboutToExecute /\ error' = NoError)
            => /\ chip8'.delay_timer = CountedDown(DelayAfterEffects, 1)
               /\ chip8'.sound_timer = CountedDown(SoundAfterEffects, 1)]_vars
    /\ [](SetsDelayOnce /\ error = NoError /\ iteration >= 2
            => chip8.delay_timer = CountedDown(chip8.mem[ProgramStart + 1], iteration - 1))

\* The delay and sound timers were set to 3, have counted down to 0 and
\* have stayed at 0 over a further pass.
C14_Witness ==
    /\ SetsDelayOnce
    /\ chip8.mem[ProgramStart + 1] = 3
    /\ error = NoError
    /\ iteration >= 6
    /\ previous.delay_timer = 0 /\ chip8.delay_timer = 0
    /\ previous.sound_timer = 0 /\ chip8.sound_timer = 0

\* The program in memory is exactly [60 05][61 03][80 14].
IsAddScenario ==
    /\ \A i \in 0..5 : chip8.mem[ProgramStart + i] = <<96, 5, 97, 3, 128, 20>>[i + 1]
    /\ \A a \in (ProgramStart + 6)..(MemSize - 1) : chip8.mem[a] = 0

\* C15: the machine built from [60 05][61 03][80 14] takes its first three
\* steps without an error, and after the third register 0 = 8, register
\* 15 = 0 and pc = 0x206.
C15_AddScenario ==
    IsAddScenario /\ iteration <= 3
        => /\ error = NoError
           /\ iteration = 3 => /\ chip8.registers[0] = 8
                               /\ chip8.registers[15] = 0
                               /\ chip8.pc = 518

\* The third step of the scenario has been taken: 8014 was the opcode.
C15_Witness ==
    /\ IsAddScenario
    /\ iteration = 3
    /\ opcode = 32788
    /\ previous.registers[0] = 5 /\ previous.registers[1] = 3
    /\ chip8.registers[0] = 8

\* C16: 7XNN on Vx = v completes and leaves Vx = (v + NN) mod 256.
C16_AddImmediateWraps ==
    [][(AboutToExecute /\ Family(Fetch) = 7)
         => /\ error' = NoError
            /\ chip8'.registers[X(Fetch)]
                   = (chip8.registers[X(Fetch)] + NN(Fetch)) % 256]_vars

\* The pass at hand executes FX55 (FX65) with the x + 1 bytes at I in
\* memory.
AboutToStoreInBounds ==
    /\ AboutToExecute
    /\ Family(Fetch) = 15 /\ NN(Fetch) = 85
    /\ chip8.address_register + X(Fetch) < MemSize
AboutToLoadInBounds ==
    /\ AboutToExecute
    /\ Family(Fetch) = 15 /\ NN(Fetch) = 101
    /\ chip8.address_register + X(Fetch) < MemSize

\* The program in memory is [60 a][61 b][A addr][F155][60 c][61 d][62 c][F165].
IsRoundTrip ==
    /\ chip8.mem[ProgramStart] = 96 /\ chip8.mem[ProgramStart + 2] = 97
    /\ chip8.mem[ProgramStart + 4] \div 16 = 10
    /\ chip8.mem[ProgramStart + 6] = 241 /\ chip8.mem[ProgramStart + 7] = 85
    /\ chip8.mem[ProgramStart + 8] = 96 /\ chip8.mem[ProgramStart + 10] = 97
    /\ chip8.mem[ProgramStart + 12] = 98
    /\ chip8.mem[ProgramStart + 14] = 241 /\ chip8.mem[ProgramStart + 15] = 101

\* C17: with I + x < 4096, FX55 completes with mem[I..I+x] = V0..Vx, every
\* other byte of memory, the registers and I unchanged; FX65 completes
\* with V0..Vx = mem[I..I+x], the registers above x, memory and I
\* unchanged; and a dump of V0, V1 followed by new values in V0, V1 and a
\* load with the same x and I leaves V0 and V1 as they were dumped.
C17_DumpAndLoadRegisters ==
    /\ [][AboutToStoreInBounds
            => LET I == chip8.address_register
               IN  /\ error' = NoError
                   /\ \A a \in 0..(MemSize - 1) :
                          chip8'.mem[a] = IF a \in I..(I + X(Fetch))
                                          THEN chip8.registers[a - I]
                                          ELSE chip8.mem[a]
                   /\ chip8'.registers = chip8.registers
                   /\ chip8'.address_register = I]_vars
    /\ [][AboutToLoadInBounds
            => LET I == chip8.address_register
               IN  /\ error' = NoError
                   /\ \A i \in 0..(NumRegisters - 1) :
                          chip8'.registers[i] = IF i <= X(Fetch)
                                                THEN chip8.mem[I + i]
                                                ELSE chip8.registers[i]
                   /\ chip8'.mem = chip8.mem
                   /\ chip8'.address_register = I]_vars
    /\ [](IsRoundTrip /\ iteration = 8
            => /\ error = NoError
               /\ chip8.registers[0] = chip8.mem[ProgramStart + 1]
               /\ chip8.registers[1] = chip8.mem[ProgramStart + 3])

\* V0 = 255 and V1 = 128 were dumped, V0 and V1 were then 7 and 9, and the
\* load has brought 255 and 128 back, leaving V2 = 7.
C17_Witness ==
    /\ IsRoundTrip
    /\ iteration = 8
    /\ error = NoError
    /\ opcode = 61797
    /\ previous.registers[0] = 7 /\ previous.registers[1] = 9
    /\ chip8.registers[0] = 255 /\ chip8.registers[1] = 128
    /\ chip8.registers[2] = 7

\* C18: FX0A completes with the identity (0..15) of a key in register x,
\* pc advanced past the instruction, and every other register, memory, I,
\* the stack and the display as they were before the instruction.
C18_WaitForKeyStoresKeyIdentity ==
    [][(AboutToExecute /\ Family(Fetch) = 15 /\ NN(Fetch) = 10)
         => /\ error' = NoError
            /\ chip8'.registers[X(Fetch)] \in 0..15
            /\ \A i \in (0..(NumRegisters - 1)) \ {X(Fetch)} :
                   chip8'.registers[i] = chip8.registers[i]
            /\ chip8'.pc = chip8.pc + 2
            /\ chip8'.mem = chip8.mem
            /\ chip8'.address_register = chip8.address_register
            /\ chip8'.stack = chip8.stack
            /\ chip8'.stack_pointer = chip8.stack_pointer
            /\ chip8'.display = chip8.display]_vars

\* The values a CXNN about to execute can leave in register x.
RandomOutcomes ==
    {r \in 0..255 : ENABLED (/\ Step_set_to_vx_rand_bitand_n
                             /\ chip8'.registers[X(Fetch)] = r)}

\* C19: a CXNN with mask 0xFF is not forced to one value by pc, stack
\* depth and pressed key: from the state it executes in, more than one
\* value of register x is possible.
C19_RandomByteIsNotForced ==
    (AboutToExecute /\ Family(Fetch) = 12 /\ NN(Fetch) = 255)
        => Cardinality(RandomOutcomes) >= 2

\* The word is a clear (family 0, low byte E0) or a draw (DXYN).
IsClear(op) == Family(op) = 0 /\ NN(op) = 224
IsDraw(op) == Family(op) = 13

\* The pass ended by returning Ok or an Err, not in a panic.
Returned(e) == e \notin {PanicIndexOutOfBounds, PanicArithmeticOverflow}

\* C20: after every pass that returns, refresh_display is true iff the
\* instruction of that pass was a clear or a draw, whatever the flag was
\* before the pass; and a clear leaves every pixel of the display off.
C20_DirtyFlagIsOfThisStep ==
    [][(AboutToExecute /\ Returned(error'))
         => /\ chip8'.refresh_display <=> (IsClear(Fetch) \/ IsDraw(Fetch))
            /\ IsClear(Fetch)
                   => \A col \in 0..63, row \in 0..31 :
                          ~PixelOn(chip8'.display, col, row)]_vars

\* A sprite was drawn and the display cleared, both passes reporting a
\* dirty display; the register load after them reports a clean one.
C20_Witness ==
    /\ error = NoError
    /\ iteration = 8
    /\ opcode = 24576
    /\ previous.refresh_display
    /\ previous.display = new(<<>>).display
    /\ ~chip8.refresh_display

\* The error is one of the three fatal conditions of Chip8Error.
IsFatalCondition(e) ==
    e.kind \in {IllegalInstruction(0, 0).kind, UnknownMachineRoutine(0).kind,
                StackOverflow.kind}

\* C21: a pass that ends in IllegalInstruction, UnknownMachineRoutine or
\* StackOverflow leaves the registers, memory, I, the stack, the stack
\* pointer, the timers and the display as they were before the pass; and
\* no pass starts once an error has ended one.
C21_FatalStepChangesNothing ==
    /\ [][(AboutToExecute /\ IsFatalCondition(error'))
            => /\ chip8'.registers = chip8.registers
               /\ chip8'.mem = chip8.mem
               /\ chip8'.address_register = chip8.address_register
               /\ chip8'.stack = chip8.stack
               /\ chip8'.stack_pointer = chip8.stack_pointer
               /\ chip8'.delay_timer = chip8.delay_timer
               /\ chip8'.sound_timer = chip8.sound_timer
               /\ chip8'.display = chip8.display]_vars
    /\ [][error = NoError]_vars

\* The word matches no defined opcode pattern of families 5, 8, 9, E, F.
MatchesNoPattern(op) ==
    \/ Family(op) \in {5, 9} /\ N(op) # 0
    \/ Family(op) = 8 /\ N(op) \in {8, 9, 10, 11, 12, 13, 15}
    \/ Family(op) = 14 /\ NN(op) \notin {158, 161}
    \/ Family(op) = 15 /\ NN(op) \notin {7, 10, 21, 24, 30, 41, 51, 85, 101}

\* C22: a word that matches no defined pattern ends its pass with
\* IllegalInstruction; it does not execute as an operation.
C22_UndefinedWordIsIllegal ==
    [][(AboutToExecute /\ MatchesNoPattern(Fetch))
         => error'.kind = IllegalInstruction(0, 0).kind]_vars

\* The word is one of the two instructions that write memory.
IsMemoryWrite(op) == Family(op) = 15 /\ NN(op) \in {51, 85}

\* C23: in every pass the display changes only under a clear or a draw
\* and memory only under FX33 or FX55; and a pass that fails, by an Err or
\* by a panic, changes neither.
C23_MemoryAndDisplayFrame ==
    [][AboutToExecute
         => /\ chip8'.display # chip8.display => IsClear(Fetch) \/ IsDraw(Fetch)
            /\ chip8'.mem # chip8.mem => IsMemoryWrite(Fetch)
            /\ error' # NoError => /\ chip8'.mem = chip8.mem
                                   /\ chip8'.display = chip8.display]_vars
====
